---- MODULE Spec2Model ----
(***************************************************************************)
(* Model of espn.py: the play-by-play normalisation of adjust_game and its *)
(* helpers (_adjust_time, _league_time, _calc_overall_time, _play_as_dict) *)
(* and of parse_plays, which sets the global team names they read.         *)
(*                                                                         *)
(* Text that the code parses (the clock "M:SS", the score "away-home") is  *)
(* a sequence of one-character strings, so that re.split, str.split and    *)
(* int() are computed as the code computes them.  Text that the code only  *)
(* copies or compares (play details, team names) is a string.              *)
(***************************************************************************)
EXTENDS Integers, Sequences, FiniteSets

VARIABLES
    away_team,      \* global away_team (espn.py:194-195); Unset before any parse_plays
    home_team,      \* global home_team (espn.py:196-197)
    pc,             \* "idle" | "adjust" (inside adjust_game's loop) | "returned" | "raised"
    league,         \* adjust_game's league argument
    plays,          \* the rows the loop of adjust_game has drawn from `plays` so far
    game,           \* adjust_game's local list `game`
    quarter,        \* adjust_game's local `quarter`
    end_of_quarter, \* adjust_game's local `end_of_quarter`
    error,          \* the exception that left adjust_game, "" when none
    result,         \* what the caller of adjust_game received (<<>> until it returns)
    calc_args,      \* the arguments of a call of _calc_overall_time on its own
    calc_time,      \* what that call returned
    threads         \* the locals of each caller thread's call, where several
                    \* threads call parse_plays and adjust_game

vars == <<away_team, home_team, pc, league, plays, game, quarter,
          end_of_quarter, error, result, calc_args, calc_time, threads>>

\* The state of a call of _calc_overall_time on its own.
calc == <<calc_args, calc_time>>

\* The globals and the state of adjust_game.
norm == <<away_team, home_team, pc, league, plays, game, quarter,
          end_of_quarter, error, result>>

----------------------------------------------------------------------------
(* Bounds of the model. *)

\* Rows drawn from the plays iterable in one call of adjust_game.
MaxRows == 4

\* Most points a literal score cell shows, both sides together.
MaxScore == 1

----------------------------------------------------------------------------
(* Python's str and int operations, on sequences of characters. *)

Digits == <<"0", "1", "2", "3", "4", "5", "6", "7", "8", "9">>

IsDigit(c) == \E i \in 1..10 : Digits[i] = c

DigitVal(c) == (CHOOSE i \in 1..10 : Digits[i] = c) - 1

\* The value of a non-empty run of digits, most significant first.
RECURSIVE DigitsVal(_)
DigitsVal(s) ==
    IF Len(s) = 0 THEN 0
    ELSE 10 * DigitsVal(SubSeq(s, 1, Len(s) - 1)) + DigitVal(s[Len(s)])

HasSign(s) == Len(s) > 0 /\ s[1] \in {"-", "+"}

Unsigned(s) == IF HasSign(s) THEN Tail(s) ELSE s

\* int(s) succeeds: an optional sign, then at least one digit.
IsIntLiteral(s) ==
    /\ Len(Unsigned(s)) > 0
    /\ \A i \in 1..Len(Unsigned(s)) : IsDigit(Unsigned(s)[i])

\* int(s), where it succeeds; it raises ValueError elsewhere.
int(s) ==
    IF HasSign(s) /\ s[1] = "-" THEN 0 - DigitsVal(Unsigned(s))
    ELSE DigitsVal(Unsigned(s))

\* s.split(sep) and re.split(sep, s) for a one-character literal sep:
\* the pieces between the separators, empty pieces kept.
RECURSIVE split(_, _)
split(s, sep) ==
    IF \A i \in 1..Len(s) : s[i] # sep THEN <<s>>
    ELSE LET i == CHOOSE j \in 1..Len(s) :
                      /\ s[j] = sep
                      /\ \A k \in 1..(j - 1) : s[k] # sep
         IN  <<SubSeq(s, 1, i - 1)>> \o split(SubSeq(s, i + 1, Len(s)), sep)

\* str.upper() on the team abbreviations of logo URLs.
upper(s) ==
    CASE s = "bos" -> "BOS"
      [] s = "lal" -> "LAL"
      [] s = "nyk" -> "NYK"
      [] OTHER     -> s

\* str.lower() on league names.
lower(s) ==
    CASE s = "NBA" -> "nba"
      [] s = "NCB" -> "ncb"
      [] OTHER     -> s

----------------------------------------------------------------------------
(* datetime.timedelta: a signed number of seconds; str() of it normalises  *)
(* into days (possibly negative) and a non-negative time of day.           *)

timedelta(minutes, seconds) == 60 * minutes + seconds

\* str(td): the fields of "[D day[s], ]H:MM:SS".
timedelta_str(td) ==
    [days    |-> td \div 86400,
     hours   |-> (td % 86400) \div 3600,
     minutes |-> ((td % 86400) % 3600) \div 60,
     seconds |-> (td % 86400) % 60]

\* The duration a formatted overall_time denotes, in seconds.
Duration(str) ==
    86400 * str.days + 3600 * str.hours + 60 * str.minutes + str.seconds

----------------------------------------------------------------------------
(* _league_time and _calc_overall_time. *)

_league_time(lg) ==
    IF lg = "nba"
    THEN [num_quarters |-> 4, regulation_time |-> 48, regular_quarter |-> 12]
    ELSE [num_quarters |-> 2, regulation_time |-> 40, regular_quarter |-> 20]

\* _calc_overall_time with the operands of its subtraction exchanged:
\* mins = clock - quarter_length.
calc_overall_time_swapped(seconds, minutes, q, lg) ==
    LET lt == _league_time(lg)
        overtime == q >= lt.num_quarters
        quarter_length == IF overtime THEN 5 ELSE lt.regular_quarter
        overtimes == q - lt.num_quarters
        previous_time ==
            IF overtime
            THEN timedelta(lt.regulation_time + 5 * (overtimes - 1), 0)
            ELSE timedelta(quarter_length * (q - 1), 0)
        mins == timedelta(minutes, seconds) - timedelta(quarter_length, 0)
    IN  timedelta_str(mins + previous_time)

\* _calc_overall_time counting the overtimes from one too many:
\* previous_time = regulation_time + 5 * overtimes.
calc_overall_time_overtimes(seconds, minutes, q, lg) ==
    LET lt == _league_time(lg)
        overtime == q >= lt.num_quarters
        quarter_length == IF overtime THEN 5 ELSE lt.regular_quarter
        overtimes == q - lt.num_quarters
        previous_time ==
            IF overtime
            THEN timedelta(lt.regulation_time + 5 * overtimes, 0)
            ELSE timedelta(quarter_length * (q - 1), 0)
        mins == timedelta(quarter_length, 0) - timedelta(minutes, seconds)
    IN  timedelta_str(mins + previous_time)

\* _calc_overall_time leaving quarter_length at the regular quarter in its
\* overtime branch.
calc_overall_time_length(seconds, minutes, q, lg) ==
    LET lt == _league_time(lg)
        overtime == q >= lt.num_quarters
        quarter_length == lt.regular_quarter
        overtimes == q - lt.num_quarters
        previous_time ==
            IF overtime
            THEN timedelta(lt.regulation_time + 5 * (overtimes - 1), 0)
            ELSE timedelta(quarter_length * (q - 1), 0)
        mins == timedelta(quarter_length, 0) - timedelta(minutes, seconds)
    IN  timedelta_str(mins + previous_time)

\* _calc_overall_time counting the current quarter among the finished
\* ones in regulation: previous_time = quarter_length * quarter.
calc_overall_time_previous(seconds, minutes, q, lg) ==
    LET lt == _league_time(lg)
        overtime == q >= lt.num_quarters
        quarter_length == IF overtime THEN 5 ELSE lt.regular_quarter
        overtimes == q - lt.num_quarters
        previous_time ==
            IF overtime
            THEN timedelta(lt.regulation_time + 5 * (overtimes - 1), 0)
            ELSE timedelta(quarter_length * q, 0)
        mins == timedelta(quarter_length, 0) - timedelta(minutes, seconds)
    IN  timedelta_str(mins + previous_time)

_calc_overall_time(seconds, minutes, q, lg) ==
    LET lt == _league_time(lg)
        overtime == q >= lt.num_quarters
        quarter_length == IF overtime THEN 5 ELSE lt.regular_quarter
        overtimes == q - lt.num_quarters
        previous_time ==
            IF overtime
            THEN timedelta(lt.regulation_time + 5 * (overtimes - 1), 0)
            ELSE timedelta(quarter_length * (q - 1), 0)
        mins == timedelta(quarter_length, 0) - timedelta(minutes, seconds)
    IN  timedelta_str(mins + previous_time)

----------------------------------------------------------------------------
(* A row of the play-by-play table, as adjust_game and _play_as_dict read  *)
(* it: the cells play.find() looks up.                                     *)
(*   time_stamp     td class "time-stamp": present or not, and its text    *)
(*   logo           what the logo regex finds in td class "logo"; ""       *)
(*                  when the cell is absent or holds no team logo URL      *)
(*   game_details   td class "game-details": present or not, and its text  *)
(*   combined_score "no-change" for td class "combined-score no-change",   *)
(*                  "score" for td class "combined-score " with its text,  *)
(*                  "none" when the row has neither                        *)

Row(time_stamp, logo, game_details, combined_score) ==
    [time_stamp |-> time_stamp, logo |-> logo,
     game_details |-> game_details, combined_score |-> combined_score]

NoTd == [td |-> FALSE, text |-> <<>>]

TimeTd(text) == [td |-> TRUE, text |-> text]

NoDetails == [td |-> FALSE, text |-> ""]

DetailsTd(text) == [td |-> TRUE, text |-> text]

NoChange == [class |-> "no-change", text |-> <<>>]

ScoreTd(text) == [class |-> "score", text |-> text]

NoScore == [class |-> "none", text |-> <<>>]

\* The global names away_team and home_team before parse_plays binds them.
Unset == "<unbound>"

\* No call of _calc_overall_time on its own is under way.
NoCall == [called |-> FALSE]

----------------------------------------------------------------------------
\* _adjust_time computing the elapsed time before it advances the period.
adjust_time_late_advance(time, q, eoq, lg) ==
    LET new_time == split(time, ":")
        raises ==
            IF ~IsIntLiteral(new_time[1]) THEN "ValueError"
            ELSE IF Len(new_time) < 2 THEN "IndexError"
            ELSE IF ~IsIntLiteral(new_time[2]) THEN "ValueError"
            ELSE ""
        minutes == int(new_time[1])
        seconds == int(new_time[2])
        set_flag == minutes = 0 /\ ~eoq
        advance == ~set_flag /\ eoq /\ minutes > 1
        q2 == IF advance THEN q + 1 ELSE q
        eoq2 == IF set_flag THEN TRUE ELSE IF advance THEN FALSE ELSE eoq
    IN  IF raises # ""
        THEN [raises |-> raises, time_dict |-> <<>>,
              quarter |-> q, end_of_quarter |-> eoq]
        ELSE [raises |-> "",
              time_dict |->
                  [overall_time |-> _calc_overall_time(seconds, minutes, q, lg),
                   quarter_time |-> time,
                   quarter |-> q2],
              quarter |-> q2, end_of_quarter |-> eoq2]

\* _adjust_time advancing the period at minutes >= 1.
adjust_time_threshold(time, q, eoq, lg) ==
    LET new_time == split(time, ":")
        raises ==
            IF ~IsIntLiteral(new_time[1]) THEN "ValueError"
            ELSE IF Len(new_time) < 2 THEN "IndexError"
            ELSE IF ~IsIntLiteral(new_time[2]) THEN "ValueError"
            ELSE ""
        minutes == int(new_time[1])
        seconds == int(new_time[2])
        set_flag == minutes = 0 /\ ~eoq
        advance == ~set_flag /\ eoq /\ minutes >= 1
        q2 == IF advance THEN q + 1 ELSE q
        eoq2 == IF set_flag THEN TRUE ELSE IF advance THEN FALSE ELSE eoq
    IN  IF raises # ""
        THEN [raises |-> raises, time_dict |-> <<>>,
              quarter |-> q, end_of_quarter |-> eoq]
        ELSE [raises |-> "",
              time_dict |->
                  [overall_time |-> _calc_overall_time(seconds, minutes, q2, lg),
                   quarter_time |-> time,
                   quarter |-> q2],
              quarter |-> q2, end_of_quarter |-> eoq2]

\* _adjust_time storing the minutes of the clock as quarter_time.
adjust_time_minutes_only(time, q, eoq, lg) ==
    LET new_time == split(time, ":")
        raises ==
            IF ~IsIntLiteral(new_time[1]) THEN "ValueError"
            ELSE IF Len(new_time) < 2 THEN "IndexError"
            ELSE IF ~IsIntLiteral(new_time[2]) THEN "ValueError"
            ELSE ""
        minutes == int(new_time[1])
        seconds == int(new_time[2])
        set_flag == minutes = 0 /\ ~eoq
        advance == ~set_flag /\ eoq /\ minutes > 1
        q2 == IF advance THEN q + 1 ELSE q
        eoq2 == IF set_flag THEN TRUE ELSE IF advance THEN FALSE ELSE eoq
    IN  IF raises # ""
        THEN [raises |-> raises, time_dict |-> <<>>,
              quarter |-> q, end_of_quarter |-> eoq]
        ELSE [raises |-> "",
              time_dict |->
                  [overall_time |-> _calc_overall_time(seconds, minutes, q2, lg),
                   quarter_time |-> new_time[1],
                   quarter |-> q2],
              quarter |-> q2, end_of_quarter |-> eoq2]

\* _adjust_time leaving the end-of-quarter flag set when it advances.
adjust_time_keeps_flag(time, q, eoq, lg) ==
    LET new_time == split(time, ":")
        raises ==
            IF ~IsIntLiteral(new_time[1]) THEN "ValueError"
            ELSE IF Len(new_time) < 2 THEN "IndexError"
            ELSE IF ~IsIntLiteral(new_time[2]) THEN "ValueError"
            ELSE ""
        minutes == int(new_time[1])
        seconds == int(new_time[2])
        set_flag == minutes = 0 /\ ~eoq
        advance == ~set_flag /\ eoq /\ minutes > 1
        q2 == IF advance THEN q + 1 ELSE q
        eoq2 == IF set_flag THEN TRUE ELSE eoq
    IN  IF raises # ""
        THEN [raises |-> raises, time_dict |-> <<>>,
              quarter |-> q, end_of_quarter |-> eoq]
        ELSE [raises |-> "",
              time_dict |->
                  [overall_time |-> _calc_overall_time(seconds, minutes, q2, lg),
                   quarter_time |-> time,
                   quarter |-> q2],
              quarter |-> q2, end_of_quarter |-> eoq2]

\* _adjust_time setting the end-of-quarter flag at minutes <= 1.
adjust_time_sets_at_one(time, q, eoq, lg) ==
    LET new_time == split(time, ":")
        raises ==
            IF ~IsIntLiteral(new_time[1]) THEN "ValueError"
            ELSE IF Len(new_time) < 2 THEN "IndexError"
            ELSE IF ~IsIntLiteral(new_time[2]) THEN "ValueError"
            ELSE ""
        minutes == int(new_time[1])
        seconds == int(new_time[2])
        set_flag == minutes <= 1 /\ ~eoq
        advance == ~set_flag /\ eoq /\ minutes > 1
        q2 == IF advance THEN q + 1 ELSE q
        eoq2 == IF set_flag THEN TRUE ELSE IF advance THEN FALSE ELSE eoq
    IN  IF raises # ""
        THEN [raises |-> raises, time_dict |-> <<>>,
              quarter |-> q, end_of_quarter |-> eoq]
        ELSE [raises |-> "",
              time_dict |->
                  [overall_time |-> _calc_overall_time(seconds, minutes, q2, lg),
                   quarter_time |-> time,
                   quarter |-> q2],
              quarter |-> q2, end_of_quarter |-> eoq2]

(* _adjust_time: [raises, time_dict, quarter, end_of_quarter].             *)

_adjust_time(time, q, eoq, lg) ==
    LET new_time == split(time, ":")
        raises ==
            IF ~IsIntLiteral(new_time[1]) THEN "ValueError"
            ELSE IF Len(new_time) < 2 THEN "IndexError"
            ELSE IF ~IsIntLiteral(new_time[2]) THEN "ValueError"
            ELSE ""
        minutes == int(new_time[1])
        seconds == int(new_time[2])
        set_flag == minutes = 0 /\ ~eoq
        advance == ~set_flag /\ eoq /\ minutes > 1
        q2 == IF advance THEN q + 1 ELSE q
        eoq2 == IF set_flag THEN TRUE ELSE IF advance THEN FALSE ELSE eoq
    IN  IF raises # ""
        THEN [raises |-> raises, time_dict |-> <<>>,
              quarter |-> q, end_of_quarter |-> eoq]
        ELSE [raises |-> "",
              time_dict |->
                  [overall_time |-> _calc_overall_time(seconds, minutes, q2, lg),
                   quarter_time |-> time,
                   quarter |-> q2],
              quarter |-> q2, end_of_quarter |-> eoq2]

(* _play_as_dict, reading the global away_team: [raises, away_play,        *)
(* home_play].  re.search returns None when the logo cell holds no team    *)
(* logo URL, and .group(0) of None raises AttributeError.                  *)

_play_as_dict(play, away) ==
    LET raises ==
            IF play.logo = "" THEN "AttributeError"
            ELSE IF away = Unset THEN "NameError"
            ELSE IF ~play.game_details.td THEN "AttributeError"
            ELSE ""
        logo == upper(play.logo)
    IN  IF raises # ""
        THEN [raises |-> raises, away_play |-> "", home_play |-> ""]
        ELSE IF logo # away
        THEN [raises |-> "", away_play |-> "",
              home_play |-> play.game_details.text]
        ELSE [raises |-> "", away_play |-> play.game_details.text,
              home_play |-> ""]

\* The score branch giving the two sides of a literal score each other's
\* number.
adjust_score_swapped(play, g) ==
    LET parts == split(play.combined_score.text, "-")
    IN  IF play.combined_score.class = "no-change"
        THEN IF Len(g) > 0
             THEN [raises |-> "", away_score |-> g[Len(g)].away_score,
                   home_score |-> g[Len(g)].home_score]
             ELSE [raises |-> "", away_score |-> 0, home_score |-> 0]
        ELSE IF play.combined_score.class = "none"
        THEN [raises |-> "AttributeError", away_score |-> 0, home_score |-> 0]
        ELSE IF Len(parts) # 2
        THEN [raises |-> "ValueError", away_score |-> 0, home_score |-> 0]
        ELSE IF ~IsIntLiteral(parts[1]) \/ ~IsIntLiteral(parts[2])
        THEN [raises |-> "ValueError", away_score |-> 0, home_score |-> 0]
        ELSE [raises |-> "", away_score |-> int(parts[2]),
              home_score |-> int(parts[1])]

\* The score branch carrying the scores of the first record, game[0],
\* instead of the last.
adjust_score_first(play, g) ==
    LET parts == split(play.combined_score.text, "-")
    IN  IF play.combined_score.class = "no-change"
        THEN IF Len(g) > 0
             THEN [raises |-> "", away_score |-> g[1].away_score,
                   home_score |-> g[1].home_score]
             ELSE [raises |-> "", away_score |-> 0, home_score |-> 0]
        ELSE IF play.combined_score.class = "none"
        THEN [raises |-> "AttributeError", away_score |-> 0, home_score |-> 0]
        ELSE IF Len(parts) # 2
        THEN [raises |-> "ValueError", away_score |-> 0, home_score |-> 0]
        ELSE IF ~IsIntLiteral(parts[1]) \/ ~IsIntLiteral(parts[2])
        THEN [raises |-> "ValueError", away_score |-> 0, home_score |-> 0]
        ELSE [raises |-> "", away_score |-> int(parts[1]),
              home_score |-> int(parts[2])]

(* The score branch of adjust_game's loop: [raises, away_score,            *)
(* home_score] for a row, given the list of records emitted so far.        *)

adjust_score(play, g) ==
    LET parts == split(play.combined_score.text, "-")
    IN  IF play.combined_score.class = "no-change"
        THEN IF Len(g) > 0
             THEN [raises |-> "", away_score |-> g[Len(g)].away_score,
                   home_score |-> g[Len(g)].home_score]
             ELSE [raises |-> "", away_score |-> 0, home_score |-> 0]
        ELSE IF play.combined_score.class = "none"
        THEN [raises |-> "AttributeError", away_score |-> 0, home_score |-> 0]
        ELSE IF Len(parts) # 2
        THEN [raises |-> "ValueError", away_score |-> 0, home_score |-> 0]
        ELSE IF ~IsIntLiteral(parts[1]) \/ ~IsIntLiteral(parts[2])
        THEN [raises |-> "ValueError", away_score |-> 0, home_score |-> 0]
        ELSE [raises |-> "", away_score |-> int(parts[1]),
              home_score |-> int(parts[2])]

\* A loop body whose skip of a row without a time-stamp cell clears the
\* end-of-quarter flag.
loop_body_skip_clears(st, play, away, lg) ==
    IF ~play.time_stamp.td
    THEN [st EXCEPT !.end_of_quarter = FALSE]
    ELSE LET new_play == _play_as_dict(play, away)
             t == _adjust_time(play.time_stamp.text, st.quarter,
                               st.end_of_quarter, lg)
             sc == adjust_score(play, st.game)
             raises == IF new_play.raises # "" THEN new_play.raises
                       ELSE IF t.raises # "" THEN t.raises
                       ELSE sc.raises
         IN  IF raises # ""
             THEN [st EXCEPT !.pc = "raised", !.error = raises]
             ELSE [st EXCEPT
                     !.game = Append(st.game,
                         [away_play    |-> new_play.away_play,
                          home_play    |-> new_play.home_play,
                          overall_time |-> t.time_dict.overall_time,
                          quarter_time |-> t.time_dict.quarter_time,
                          quarter      |-> t.time_dict.quarter,
                          away_score   |-> sc.away_score,
                          home_score   |-> sc.home_score]),
                     !.quarter = t.quarter,
                     !.end_of_quarter = t.end_of_quarter]

(* The body of adjust_game's loop on one row: the locals st (pc, game,    *)
(* quarter, end_of_quarter, error) after the iteration, given the global   *)
(* away_team and the league.  A row without time-stamp cell is skipped by  *)
(* the bare except; an exception of a later line leaves adjust_game.       *)
loop_body(st, play, away, lg) ==
    IF ~play.time_stamp.td
    THEN st
    ELSE LET new_play == _play_as_dict(play, away)
             t == _adjust_time(play.time_stamp.text, st.quarter,
                               st.end_of_quarter, lg)
             sc == adjust_score(play, st.game)
             raises == IF new_play.raises # "" THEN new_play.raises
                       ELSE IF t.raises # "" THEN t.raises
                       ELSE sc.raises
         IN  IF raises # ""
             THEN [st EXCEPT !.pc = "raised", !.error = raises]
             ELSE [st EXCEPT
                     !.game = Append(st.game,
                         [away_play    |-> new_play.away_play,
                          home_play    |-> new_play.home_play,
                          overall_time |-> t.time_dict.overall_time,
                          quarter_time |-> t.time_dict.quarter_time,
                          quarter      |-> t.time_dict.quarter,
                          away_score   |-> sc.away_score,
                          home_score   |-> sc.home_score]),
                     !.quarter = t.quarter,
                     !.end_of_quarter = t.end_of_quarter]

\* adjust_game's loop over rows, from the locals st: the locals after the
\* last row, or at the row that raised.
RECURSIVE normalize(_, _, _, _)
normalize(st, rows, away, lg) ==
    IF rows = <<>> \/ st.pc = "raised"
    THEN st
    ELSE normalize(loop_body(st, Head(rows), away, lg), Tail(rows), away, lg)

\* The caller threads, and the locals of a thread that is in no call.
\* title is the pair of team names of the page the thread's parse_plays
\* read, <<>> when the thread called adjust_game itself.
Threads == {1, 2}

NoTitle == <<>>

IdleThread ==
    [pc |-> "idle", title |-> NoTitle, league |-> "nba", plays |-> <<>>,
     game |-> <<>>, quarter |-> 1, end_of_quarter |-> FALSE, error |-> "",
     result |-> <<>>]

----------------------------------------------------------------------------
(* The operations. *)

Init ==
    /\ away_team = Unset
    /\ home_team = Unset
    /\ pc = "idle"
    /\ league = "nba"
    /\ plays = <<>>
    /\ game = <<>>
    /\ quarter = 1
    /\ end_of_quarter = FALSE
    /\ error = ""
    /\ result = <<>>
    /\ calc_args = NoCall
    /\ calc_time = NoCall
    /\ threads = [t \in Threads |-> IdleThread]

\* adjust_game(plays, league) is entered: game = [], quarter = 1,
\* end_of_quarter = False.
adjust_game(lg) ==
    /\ pc # "adjust"
    /\ pc' = "adjust"
    /\ league' = lg
    /\ plays' = <<>>
    /\ game' = <<>>
    /\ quarter' = 1
    /\ end_of_quarter' = FALSE
    /\ error' = ""
    /\ result' = <<>>
    /\ UNCHANGED <<away_team, home_team, calc, threads>>

\* parse_plays(game_id, league), up to its call of adjust_game, on a page
\* that has the play-by-play table and two team-name cells reading title[1]
\* and title[2]: binds the globals and calls adjust_game with the
\* lower-cased league.
parse_plays(title, lg) ==
    /\ pc # "adjust"
    /\ away_team' = title[1]
    /\ home_team' = title[2]
    /\ pc' = "adjust"
    /\ league' = lower(lg)
    /\ plays' = <<>>
    /\ game' = <<>>
    /\ quarter' = 1
    /\ end_of_quarter' = FALSE
    /\ error' = ""
    /\ result' = <<>>
    /\ UNCHANGED <<calc, threads>>

\* One iteration of a loop that catches the exception of a row and returns
\* the records appended so far.
adjust_game_row_partial(play) ==
    /\ pc = "adjust"
    /\ Len(plays) < MaxRows
    /\ plays' = Append(plays, play)
    /\ LET st == loop_body([pc |-> pc, game |-> game, quarter |-> quarter,
                            end_of_quarter |-> end_of_quarter,
                            error |-> error],
                           play, away_team, league)
       IN  /\ pc' = IF st.pc = "raised" THEN "returned" ELSE st.pc
           /\ result' = IF st.pc = "raised" THEN game ELSE result
           /\ game' = st.game
           /\ quarter' = st.quarter
           /\ end_of_quarter' = st.end_of_quarter
           /\ error' = st.error
    /\ UNCHANGED <<away_team, home_team, league, calc, threads>>

\* One iteration of adjust_game's loop, on the next row of plays.
adjust_game_row(play) ==
    /\ pc = "adjust"
    /\ Len(plays) < MaxRows
    /\ plays' = Append(plays, play)
    /\ LET st == loop_body([pc |-> pc, game |-> game, quarter |-> quarter,
                            end_of_quarter |-> end_of_quarter,
                            error |-> error],
                           play, away_team, league)
       IN  /\ pc' = st.pc
           /\ game' = st.game
           /\ quarter' = st.quarter
           /\ end_of_quarter' = st.end_of_quarter
           /\ error' = st.error
    /\ UNCHANGED <<away_team, home_team, league, result, calc, threads>>

\* plays is exhausted: adjust_game returns game.
adjust_game_return ==
    /\ pc = "adjust"
    /\ pc' = "returned"
    /\ result' = game
    /\ UNCHANGED <<away_team, home_team, league, plays, game, quarter,
                   end_of_quarter, error, calc, threads>>

----------------------------------------------------------------------------
(* Inputs. *)

\* League arguments a caller passes to parse_plays, which lower-cases
\* them, and to adjust_game.
LeagueArgs == {"nba", "ncb", "NBA"}

Leagues == {"nba", "ncb"}

\* The team-name cells of a contest page: away first, home second.
Titles == {<<"BOS", "LAL">>, <<"LAL", "BOS">>}

\* Clock cells: in range, at the period boundaries, out of range for the
\* period ("20:00" in a 12-minute quarter), seconds past 59, signed, and
\* text int() or the index [1] rejects.
ClockTexts ==
    {<<"0", ":", "0", "0">>,
     <<"1", ":", "0", "0">>,
     <<"5", ":", "0", "0">>,
     <<"5", ":", "7", "5">>,
     <<"1", "1", ":", "5", "8">>,
     <<"2", "0", ":", "0", "0">>,
     <<"-", "1", ":", "0", "0">>,
     <<"5">>,
     <<"x", ":", "0", "0">>}

\* The text "a-h" of a score cell.
score_text(a, h) == <<Digits[a + 1], "-", Digits[h + 1]>>

ScoreTexts ==
    {score_text(p[1], p[2]) :
        p \in {q \in (0..MaxScore) \X (0..MaxScore) : q[1] + q[2] <= MaxScore}}
        \cup {<<"1">>, <<"1", "-", "x">>}

ScoreCells == {NoChange, NoScore} \cup {ScoreTd(s) : s \in ScoreTexts}

TimeCells == {NoTd} \cup {TimeTd(c) : c \in ClockTexts}

Logos == {"", "bos", "lal", "nyk"}

DetailCells == {NoDetails, DetailsTd("Jump shot"), DetailsTd("")}

Rows(times, logos, details, scores) ==
    {Row(t, l, d, s) : t \in times, l \in logos, d \in details, s \in scores}

\* Rows that differ in their clock only.
ClockRows ==
    Rows(TimeCells, {"bos"}, {DetailsTd("Jump shot")}, {NoChange})

\* Rows that differ in their score cell only, and a row with no time-stamp
\* cell.
ScoreRows ==
    Rows({TimeTd(<<"5", ":", "0", "0">>)}, {"bos"},
         {DetailsTd("Jump shot")}, ScoreCells)
        \cup Rows({NoTd}, {"bos"}, {DetailsTd("Jump shot")}, {NoChange})

\* Rows that differ in their logo and details only.
LogoRows ==
    Rows({TimeTd(<<"5", ":", "0", "0">>)}, Logos, DetailCells, {NoChange})

NextOver(titles, rows) ==
    \/ \E title \in titles, lg \in LeagueArgs : parse_plays(title, lg)
    \/ \E lg \in Leagues : adjust_game(lg)
    \/ \E play \in rows : adjust_game_row(play)
    \/ adjust_game_return

NextClock == NextOver({<<"BOS", "LAL">>}, ClockRows)

NextScore == NextOver({<<"BOS", "LAL">>}, ScoreRows)

NextLogo == NextOver(Titles, LogoRows)

\* adjust_game over rows that vary in their clock.
SpecClock == Init /\ [][NextClock]_vars

\* adjust_game over rows that vary in their score cell.
SpecScore == Init /\ [][NextScore]_vars

\* adjust_game over rows that vary in their logo and details.
SpecLogo == Init /\ [][NextLogo]_vars

----------------------------------------------------------------------------
(* _calc_overall_time on its own, over every clock and period in bounds.   *)

\* Largest minutes and seconds of a clock, and largest period, it is given.
MaxMinutes == 21

MaxSeconds == 61

MaxQuarter == 6

InitCalc ==
    /\ away_team = Unset
    /\ home_team = Unset
    /\ pc = "idle"
    /\ league = "nba"
    /\ plays = <<>>
    /\ game = <<>>
    /\ quarter = 1
    /\ end_of_quarter = FALSE
    /\ error = ""
    /\ result = <<>>
    /\ calc_args \in [called : {TRUE}, seconds : 0..MaxSeconds,
                      minutes : 0..MaxMinutes, quarter : 1..MaxQuarter,
                      league : {"nba", "ncb"}]
    /\ calc_time = NoCall
    /\ threads = [t \in Threads |-> IdleThread]

calc_overall_time ==
    /\ calc_time = NoCall
    /\ calc_time' = [called |-> TRUE,
                     overall_time |->
                         _calc_overall_time(calc_args.seconds, calc_args.minutes,
                                            calc_args.quarter, calc_args.league)]
    /\ UNCHANGED <<calc_args, norm, threads>>

SpecCalc == InitCalc /\ [][calc_overall_time]_vars

----------------------------------------------------------------------------
(* What the properties below speak of. *)

\* The rows drawn so far that have a time-stamp cell.  adjust_game appends
\* one record per such row, in order, so game[i] comes from Emitted[i].
Emitted == SelectSeq(plays, LAMBDA r : r.time_stamp.td)

\* Minutes, seconds and remaining time (in seconds) of a clock text.
ClockMinutes(text) == int(split(text, ":")[1])

ClockSeconds(text) == int(split(text, ":")[2])

Remaining(text) == 60 * ClockMinutes(text) + ClockSeconds(text)

\* The length in minutes of period q: a regulation period up to the
\* league's regulation count, five minutes beyond it.
PeriodLength(q, lg) ==
    IF q <= _league_time(lg).num_quarters
    THEN _league_time(lg).regular_quarter
    ELSE 5

\* A formatted time H:MM:SS with no day part.
HMS(h, m, sec) == [days |-> 0, hours |-> h, minutes |-> m, seconds |-> sec]

----------------------------------------------------------------------------
(* C9: for every league and every overtime number k >= 1, a clock of m:ss  *)
(* remaining (0 <= m:ss <= 5:00) in period num_quarters + k has elapsed     *)
(* time regulation_time + 5*(k-1) minutes + (5:00 - m:ss); nba, period 5,  *)
(* clock 5:00 gives exactly 0:48:00.                                       *)
C9_OvertimeElapsed ==
    calc_time.called =>
        LET lt == _league_time(calc_args.league)
            k == calc_args.quarter - lt.num_quarters
            rem == 60 * calc_args.minutes + calc_args.seconds
        IN  /\ (k >= 1 /\ calc_args.seconds <= 59 /\ rem <= 300) =>
                   Duration(calc_time.overall_time) =
                       60 * (lt.regulation_time + 5 * (k - 1)) + (300 - rem)
            /\ (/\ calc_args.league = "nba"
                /\ calc_args.quarter = 5
                /\ calc_args.minutes = 5
                /\ calc_args.seconds = 0) =>
                   calc_time.overall_time = HMS(0, 48, 0)

\* nba, second overtime (period 6), clock 2:30: elapsed 0:55:30.
C9_Witness ==
    /\ calc_time.called
    /\ calc_args.league = "nba"
    /\ calc_args.quarter = 6
    /\ calc_args.minutes = 2
    /\ calc_args.seconds = 30
    /\ calc_time.overall_time = HMS(0, 55, 30)

(* C10: in the last regulation period (4 for nba, 2 for the other          *)
(* leagues) a clock of m:ss remaining yields regular_quarter*(period-1) +  *)
(* (regular_quarter - m:ss), the formula of the earlier regulation         *)
(* periods, although the code takes its overtime branch there.             *)
C10_LastRegulationPeriod ==
    calc_time.called =>
        LET lt == _league_time(calc_args.league)
            rem == 60 * calc_args.minutes + calc_args.seconds
        IN  calc_args.quarter = lt.num_quarters =>
                Duration(calc_time.overall_time) =
                    60 * lt.regular_quarter * (calc_args.quarter - 1)
                        + (60 * lt.regular_quarter - rem)

\* nba, period 4, clock 11:58: elapsed 0:36:02.
C10_Witness ==
    /\ calc_time.called
    /\ calc_args.league = "nba"
    /\ calc_args.quarter = 4
    /\ calc_args.minutes = 11
    /\ calc_args.seconds = 58
    /\ calc_time.overall_time = HMS(0, 36, 2)

----------------------------------------------------------------------------
(* C1 as stated: the elapsed game time of each emitted record is greater   *)
(* than or equal to that of the record emitted before it, for every        *)
(* sequence of rows adjust_game normalizes.                                *)
C1_ElapsedNonDecreasing ==
    \A i \in 2..Len(game) :
        Duration(game[i].overall_time) >= Duration(game[i - 1].overall_time)

\* The record follows its predecessor within one period, its clock no
\* later than the predecessor's.
SamePeriodClockRunsDown(prev, rec) ==
    /\ rec.quarter = prev.quarter
    /\ Remaining(rec.quarter_time) <= Remaining(prev.quarter_time)

\* The record opens the period after its predecessor's, the predecessor's
\* clock not below 0:00 and its own not above the length of its period.
NextPeriodClockInRange(prev, rec, lg) ==
    /\ rec.quarter = prev.quarter + 1
    /\ Remaining(prev.quarter_time) >= 0
    /\ Remaining(rec.quarter_time) <= 60 * PeriodLength(rec.quarter, lg)

(* C1, amended: the elapsed game time of an emitted record is greater than *)
(* or equal to that of the record before it whenever the record is in the  *)
(* same period with a clock (remaining time) no greater than the previous  *)
(* record's, or is in the next period, the previous clock being at least   *)
(* 0:00 and its own at most the length of its period (the regular period   *)
(* length up to the last regulation period, 5 minutes in overtime).        *)
C1_ElapsedNonDecreasingWhenClockRunsDown ==
    \A i \in 2..Len(game) :
        (\/ SamePeriodClockRunsDown(game[i - 1], game[i])
         \/ NextPeriodClockInRange(game[i - 1], game[i], league)) =>
            Duration(game[i].overall_time) >= Duration(game[i - 1].overall_time)

\* Three records: two in one period with the clock running down, the third
\* opening the next period, each later than the one before.
C1_Witness ==
    /\ Len(game) = 3
    /\ SamePeriodClockRunsDown(game[1], game[2])
    /\ NextPeriodClockInRange(game[2], game[3], league)
    /\ Duration(game[1].overall_time) < Duration(game[2].overall_time)
    /\ Duration(game[2].overall_time) < Duration(game[3].overall_time)

(* C3: when a row with minutes = 0 in period p is followed by a row whose  *)
(* clock shows minutes > 1, the second row is emitted with period p+1 and  *)
(* the elapsed time of that clock in period p+1; for nba, period 1, clocks *)
(* "0:00" then "11:58", the second record has period 2 and elapsed time    *)
(* 0:12:02.                                                                *)
C3_AdvanceBeforeElapsed ==
    \A i \in 2..Len(game) :
        (/\ ClockMinutes(game[i - 1].quarter_time) = 0
         /\ ClockMinutes(game[i].quarter_time) > 1) =>
            /\ game[i].quarter = game[i - 1].quarter + 1
            /\ game[i].overall_time =
                   _calc_overall_time(ClockSeconds(game[i].quarter_time),
                                      ClockMinutes(game[i].quarter_time),
                                      game[i - 1].quarter + 1, league)
            /\ (/\ league = "nba"
                /\ game[i - 1].quarter = 1
                /\ game[i - 1].quarter_time = <<"0", ":", "0", "0">>
                /\ game[i].quarter_time = <<"1", "1", ":", "5", "8">>) =>
                   /\ game[i].quarter = 2
                   /\ game[i].overall_time = HMS(0, 12, 2)

\* nba: "0:00" in period 1, then "11:58".
C3_Witness ==
    /\ league = "nba"
    /\ Len(game) = 2
    /\ game[1].quarter = 1
    /\ game[1].quarter_time = <<"0", ":", "0", "0">>
    /\ game[2].quarter_time = <<"1", "1", ":", "5", "8">>
    /\ game[2].quarter = 2

(* C4: over the rows of one call the period never decreases and changes by *)
(* at most 1 per row; it changes (by exactly 1, clearing the end-of-period *)
(* flag) on a row if and only if the flag was true before the row and the  *)
(* row, which is normalized, shows minutes > 1.                            *)
C4_PeriodStep ==
    [][(pc = "adjust" /\ Len(plays') = Len(plays) + 1) =>
          LET play == plays'[Len(plays')]
              emitted == Len(game') = Len(game) + 1
          IN  /\ quarter' >= quarter
              /\ quarter' <= quarter + 1
              /\ (quarter' = quarter + 1) <=>
                     (/\ emitted
                      /\ end_of_quarter
                      /\ ClockMinutes(play.time_stamp.text) > 1)
              /\ (quarter' = quarter + 1) => ~end_of_quarter'
              /\ emitted => game'[Len(game')].quarter = quarter']_vars

\* A row with minutes 0 set the flag, a row with minutes 1 left period and
\* flag alone, and a third row advanced the period to 2.
C4_Witness ==
    /\ pc = "adjust"
    /\ quarter = 2
    /\ ~end_of_quarter
    /\ Len(game) = 3
    /\ game[2].quarter = 1
    /\ ClockMinutes(game[2].quarter_time) = 1

(* C7 as stated: a row whose clock has seconds outside 0..59, or minutes   *)
(* outside the range of its period's length, makes normalization fail, so  *)
(* no record is emitted for it.                                            *)
C7_MalformedClockRejected ==
    \A i \in 1..Len(game) :
        /\ ClockSeconds(game[i].quarter_time) \in 0..59
        /\ ClockMinutes(game[i].quarter_time) >= 0
        /\ Remaining(game[i].quarter_time)
               <= 60 * PeriodLength(game[i].quarter, league)

----------------------------------------------------------------------------
(* C2 as stated: away_score and home_score of each emitted record are each *)
(* greater than or equal to the corresponding score of the record before   *)
(* it, whatever mix of no-change and literal score rows the input holds.   *)
C2_ScoresNonDecreasing ==
    \A i \in 2..Len(game) :
        /\ game[i].away_score >= game[i - 1].away_score
        /\ game[i].home_score >= game[i - 1].home_score

\* The row is a no-change row, or a literal score row showing scores not
\* below those of the record prev.
ScoreNotLowered(row, prev) ==
    \/ row.combined_score.class = "no-change"
    \/ /\ row.combined_score.class = "score"
       /\ int(split(row.combined_score.text, "-")[1]) >= prev.away_score
       /\ int(split(row.combined_score.text, "-")[2]) >= prev.home_score

(* C2, amended: away_score and home_score of an emitted record are each    *)
(* greater than or equal to those of the record before it whenever its row *)
(* is a no-change row or a literal score row whose two scores are not      *)
(* below the previous record's; a literal row showing a lower score is     *)
(* emitted with that lower score.                                          *)
C2_ScoresNonDecreasingUnlessLowered ==
    \A i \in 2..Len(game) :
        ScoreNotLowered(Emitted[i], game[i - 1]) =>
            /\ game[i].away_score >= game[i - 1].away_score
            /\ game[i].home_score >= game[i - 1].home_score

\* A row without time-stamp, then "0-0", then "0-1", then a no-change row:
\* 0-0, 0-1, 0-1.
C2_Witness ==
    /\ Len(plays) = 4
    /\ ~plays[1].time_stamp.td
    /\ Len(game) = 3
    /\ Emitted[1].combined_score = ScoreTd(score_text(0, 0))
    /\ Emitted[2].combined_score = ScoreTd(score_text(0, 1))
    /\ Emitted[3].combined_score = NoChange
    /\ game[2].away_score = 0 /\ game[2].home_score = 1
    /\ game[3].away_score = 0 /\ game[3].home_score = 1

(* C8: a no-change row that is the first emitted row of a contest gets     *)
(* away_score = 0 and home_score = 0; every later no-change row gets the   *)
(* away_score and home_score of the record emitted immediately before it.  *)
C8_NoChangeCarriesScore ==
    \A i \in 1..Len(game) :
        Emitted[i].combined_score.class = "no-change" =>
            IF i = 1
            THEN game[i].away_score = 0 /\ game[i].home_score = 0
            ELSE /\ game[i].away_score = game[i - 1].away_score
                 /\ game[i].home_score = game[i - 1].home_score

\* A no-change first row, then "0-0", then "1-0", then a no-change row
\* carrying 1-0.
C8_Witness ==
    /\ Len(plays) = 4
    /\ Len(game) = 4
    /\ Emitted[1].combined_score = NoChange
    /\ game[1].away_score = 0 /\ game[1].home_score = 0
    /\ Emitted[2].combined_score = ScoreTd(score_text(0, 0))
    /\ Emitted[3].combined_score = ScoreTd(score_text(1, 0))
    /\ Emitted[4].combined_score = NoChange
    /\ game[4].away_score = 1 /\ game[4].home_score = 0

----------------------------------------------------------------------------
(* C5 as stated: in every emitted record at most one of away_play and      *)
(* home_play is non-empty, and a row whose team logo is empty or absent is *)
(* emitted as an official play, with away_play and home_play both empty.   *)
C5_OfficialPlayEmitted ==
    /\ \A i \in 1..Len(game) :
           game[i].away_play = "" \/ game[i].home_play = ""
    /\ \A i \in 1..Len(Emitted) :
           (Emitted[i].logo = "" /\ Emitted[i].game_details.text # "") =>
               /\ i <= Len(game)
               /\ game[i].away_play = ""
               /\ game[i].home_play = ""

(* C6 as stated: a row whose team logo equals neither the away team nor    *)
(* the home team makes normalization fail; no record is emitted for it, so *)
(* its play text is attributed to neither side.                            *)
C6_UnattributableRejected ==
    \A i \in 1..Len(Emitted) :
        (/\ Emitted[i].logo # ""
         /\ upper(Emitted[i].logo) \notin {away_team, home_team}
         /\ Emitted[i].game_details.text # "") =>
            /\ i > Len(game)
            /\ pc = "raised"

----------------------------------------------------------------------------
(* C11: for every league and every period p below the league's regulation  *)
(* count, a clock of m:ss remaining yields elapsed time                    *)
(* regular_quarter*(p-1) + (regular_quarter - m:ss); nba, period 1, clock  *)
(* 12:00 yields 0:00:00.                                                   *)
C11_RegulationElapsed ==
    calc_time.called =>
        LET lt == _league_time(calc_args.league)
            rem == 60 * calc_args.minutes + calc_args.seconds
        IN  /\ calc_args.quarter < lt.num_quarters =>
                   Duration(calc_time.overall_time) =
                       60 * lt.regular_quarter * (calc_args.quarter - 1)
                           + (60 * lt.regular_quarter - rem)
            /\ (/\ calc_args.league = "nba"
                /\ calc_args.quarter = 1
                /\ calc_args.minutes = 12
                /\ calc_args.seconds = 0) =>
                   calc_time.overall_time = HMS(0, 0, 0)

\* nba, period 3, clock 7:15: elapsed 0:28:45.
C11_Witness ==
    /\ calc_time.called
    /\ calc_args.league = "nba"
    /\ calc_args.quarter = 3
    /\ calc_args.minutes = 7
    /\ calc_args.seconds = 15
    /\ calc_time.overall_time = HMS(0, 28, 45)

----------------------------------------------------------------------------
(* Calls from several threads.  Each thread has its own locals (the frame  *)
(* of its call); away_team and home_team are the module's globals, which   *)
(* every thread's parse_plays binds and every thread's _play_as_dict       *)
(* reads.  The two global assignments of parse_plays are taken as one      *)
(* step.                                                                   *)

\* Thread t calls parse_plays on a page whose team-name cells read title.
t_parse_plays(t, title, lg) ==
    /\ threads[t].pc # "adjust"
    /\ away_team' = title[1]
    /\ home_team' = title[2]
    /\ threads' = [threads EXCEPT ![t] =
                       [IdleThread EXCEPT !.pc = "adjust", !.title = title,
                                          !.league = lower(lg)]]
    /\ UNCHANGED <<pc, league, plays, game, quarter, end_of_quarter, error,
                   result, calc>>

\* Thread t calls adjust_game itself.
t_adjust_game(t, lg) ==
    /\ threads[t].pc # "adjust"
    /\ threads' = [threads EXCEPT ![t] =
                       [IdleThread EXCEPT !.pc = "adjust", !.league = lg]]
    /\ UNCHANGED <<norm, calc>>

\* Rows a thread draws from plays in one call of adjust_game.
MaxThreadRows == 3

\* One iteration of the loop of thread t's adjust_game.
t_adjust_game_row(t, play) ==
    /\ threads[t].pc = "adjust"
    /\ Len(threads[t].plays) < MaxThreadRows
    /\ threads' = [threads EXCEPT ![t] =
                       loop_body([threads[t] EXCEPT
                                      !.plays = Append(threads[t].plays, play)],
                                 play, away_team, threads[t].league)]
    /\ UNCHANGED <<norm, calc>>

\* Thread t's adjust_game returns game; under parse_plays the thread then
\* returns (away_team, home_team, game), reading the globals.
t_adjust_game_return(t) ==
    /\ threads[t].pc = "adjust"
    /\ threads' = [threads EXCEPT ![t] =
                       [threads[t] EXCEPT
                            !.pc = "returned",
                            !.result =
                                IF threads[t].title = NoTitle
                                THEN threads[t].game
                                ELSE <<away_team, home_team, threads[t].game>>]]
    /\ UNCHANGED <<norm, calc>>

\* Rows of a thread's contest: they differ in their logo only.
ThreadRows ==
    Rows({TimeTd(<<"5", ":", "0", "0">>)}, {"bos", "lal"},
         {DetailsTd("Jump shot")}, {NoChange})

\* Two threads, each calling parse_plays on its own contest.
NextConcurrent ==
    \E t \in Threads :
        \/ \E title \in Titles : t_parse_plays(t, title, "nba")
        \/ \E play \in ThreadRows : t_adjust_game_row(t, play)
        \/ t_adjust_game_return(t)

SpecConcurrent == Init /\ [][NextConcurrent]_vars

\* One thread, calling parse_plays or adjust_game, one call after another.
NextContext ==
    \/ \E title \in Titles : t_parse_plays(1, title, "nba")
    \/ t_adjust_game(1, "nba")
    \/ \E play \in ThreadRows : t_adjust_game_row(1, play)
    \/ t_adjust_game_return(1)

SpecContext == Init /\ [][NextContext]_vars

\* The rows thread t has drawn so far that have a time-stamp cell.
EmittedOf(t) == SelectSeq(threads[t].plays, LAMBDA r : r.time_stamp.td)

\* Record rec attributes the text of row to the away side if the row's
\* logo is the away team's, and to the home side otherwise.
AttributedUsing(rec, row, away) ==
    IF upper(row.logo) = away
    THEN rec.away_play = row.game_details.text /\ rec.home_play = ""
    ELSE rec.away_play = "" /\ rec.home_play = row.game_details.text

(* C13 as stated: two contests normalized by interleaved parse_plays calls *)
(* do not affect each other: every record of each contest is attributed    *)
(* using that contest's own away team identifier.                          *)
C13_OwnAwayTeam ==
    \A t \in Threads :
        \A i \in 1..Len(threads[t].game) :
            AttributedUsing(threads[t].game[i], EmittedOf(t)[i],
                            threads[t].title[1])

(* C14 as stated: normalizing rows before the team identifiers of the      *)
(* contest have been resolved fails and emits nothing; rows are never      *)
(* attributed using a team identifier left over from an earlier contest.   *)
C14_NoLeftoverTeam ==
    \A t \in Threads :
        threads[t].title = NoTitle =>
            /\ threads[t].game = <<>>
            /\ Len(EmittedOf(t)) > 0 => threads[t].pc = "raised"


----------------------------------------------------------------------------
(* Failure of a call. *)

\* C12: when normalization fails on a row the caller receives no records:
\* after an exception nothing has been returned, and whatever is returned
\* is the whole sequence, one record for every row with a clock, never a
\* prefix cut at a failing row.
C12_AllOrNothing ==
    /\ pc = "raised" => result = <<>>
    /\ result # <<>> =>
          /\ pc = "returned"
          /\ error = ""
          /\ result = game
          /\ Len(result) = Len(Emitted)

\* A row with a malformed clock fails after two records were appended, and
\* the caller has received nothing.
C12_Witness ==
    /\ pc = "raised"
    /\ error \in {"ValueError", "IndexError"}
    /\ Len(game) = 2
    /\ Len(Emitted) = 3
    /\ result = <<>>


----------------------------------------------------------------------------
(* Rows without a clock. *)

\* The locals of adjust_game at its entry.
EntryLocals ==
    [pc |-> "adjust", game |-> <<>>, quarter |-> 1,
     end_of_quarter |-> FALSE, error |-> ""]

\* The locals of adjust_game as they are now.
Locals ==
    [pc |-> pc, game |-> game, quarter |-> quarter,
     end_of_quarter |-> end_of_quarter, error |-> error]

\* The step draws a row that has no time-stamp cell.
DrawsRowWithoutClock ==
    /\ pc = "adjust"
    /\ Len(plays') = Len(plays) + 1
    /\ ~plays'[Len(plays')].time_stamp.td

\* C15: a row without a clock field is skipped: the step that draws it
\* leaves the records, the period, the end-of-period flag (and so the
\* carried scores, which are the last record's) as they were, and the
\* records and state reached are those of normalizing the rows with every
\* such row removed.
C15_AbsentClockSkipped ==
    /\ [][DrawsRowWithoutClock =>
            UNCHANGED <<pc, game, quarter, end_of_quarter, error>>]_vars
    /\ [](pc = "adjust" =>
            Locals = normalize(EntryLocals, Emitted, away_team, league))

\* A row without a clock was drawn while the flag was set, and the next
\* row, with clock 5:00, advanced the period as if it had come directly.
C15_Witness ==
    /\ Len(plays) = 3
    /\ plays[1].time_stamp = TimeTd(<<"0", ":", "0", "0">>)
    /\ plays[2].time_stamp = NoTd
    /\ plays[3].time_stamp = TimeTd(<<"5", ":", "0", "0">>)
    /\ Len(game) = 2
    /\ game[2].quarter = 2
    /\ quarter = 2


----------------------------------------------------------------------------
(* The closing rows of a period. *)

\* C16: while the end-of-period flag is true, a normalized row with minutes
\* 0 or 1 leaves the period and the flag as they were, and its record
\* carries the unchanged period; while the flag is false, a normalized row
\* with minutes 1 leaves it false.
C16_ClosingRowsKeepState ==
    [][(/\ pc = "adjust"
        /\ Len(plays') = Len(plays) + 1
        /\ Len(game') = Len(game) + 1
        /\ ClockMinutes(plays'[Len(plays')].time_stamp.text) \in {0, 1}) =>
          LET minutes == ClockMinutes(plays'[Len(plays')].time_stamp.text)
          IN  /\ end_of_quarter =>
                    /\ quarter' = quarter
                    /\ end_of_quarter'
                    /\ game'[Len(game')].quarter = quarter
              /\ (~end_of_quarter /\ minutes = 1) =>
                    /\ quarter' = quarter
                    /\ ~end_of_quarter']_vars

\* A first row at 1:00 did not set the flag (the second, at 0:00, did, so
\* its record is still of period 1 and the flag was false before it); a
\* third at 0:00 and a fourth at 1:00 left period 1 and the flag standing.
C16_Witness ==
    /\ pc = "adjust"
    /\ Len(game) = 4
    /\ ClockMinutes(game[1].quarter_time) = 1
    /\ ClockMinutes(game[2].quarter_time) = 0
    /\ ClockMinutes(game[3].quarter_time) = 0
    /\ ClockMinutes(game[4].quarter_time) = 1
    /\ quarter = 1
    /\ end_of_quarter


----------------------------------------------------------------------------
(* The period as a count of advances. *)

\* The period before record i of game: 1 at the start of the contest.
PeriodBefore(i) == IF i = 1 THEN 1 ELSE game[i - 1].quarter

\* Record i is of the period after the one before it: its row advanced.
AdvanceAt(i) == game[i].quarter = PeriodBefore(i) + 1

\* The records before record i whose clock shows minutes 0.
ZeroMinuteBefore(i) ==
    {j \in 1..(i - 1) : ClockMinutes(game[j].quarter_time) = 0}

\* C17: the period is 1 plus the number of advances so far (a record is of
\* the period before it or of the next); each advance is preceded, since
\* the previous advance or the start, by a row with minutes 0; so a
\* record's period is at most 1 plus the number of earlier rows with
\* minutes 0.
C17_PeriodCountsAdvances ==
    LET records == 1..Len(game)
    IN  /\ \A i \in records :
              game[i].quarter \in {PeriodBefore(i), PeriodBefore(i) + 1}
        /\ quarter = 1 + Cardinality({i \in records : AdvanceAt(i)})
        /\ \A i \in records :
              AdvanceAt(i) =>
                 \E j \in ZeroMinuteBefore(i) :
                     game[j].quarter = PeriodBefore(i)
        /\ \A i \in records :
              game[i].quarter <= 1 + Cardinality(ZeroMinuteBefore(i))

\* Two advances, each after a row at 0:00: period 3 after four rows.
C17_Witness ==
    /\ Len(game) = 4
    /\ quarter = 3
    /\ ClockMinutes(game[1].quarter_time) = 0
    /\ AdvanceAt(2)
    /\ ClockMinutes(game[3].quarter_time) = 0
    /\ AdvanceAt(4)


----------------------------------------------------------------------------
(* The returned sequence. *)

\* C18: when adjust_game returns, it returns exactly one record per input
\* row that has a clock field, in input order, and each record's
\* quarter_time is the text of that row's clock cell as it was read.
C18_OneRecordPerClockRow ==
    pc = "returned" =>
        /\ Len(result) = Len(Emitted)
        /\ \A i \in 1..Len(result) :
              result[i].quarter_time = Emitted[i].time_stamp.text

\* Four rows, the second without a clock: three records are returned, the
\* first with the out-of-range clock 5:75 and the last with 11:58, as read.
C18_Witness ==
    /\ pc = "returned"
    /\ Len(plays) = 4
    /\ plays[2].time_stamp = NoTd
    /\ Len(result) = 3
    /\ result[1].quarter_time = <<"5", ":", "7", "5">>
    /\ result[3].quarter_time = <<"1", "1", ":", "5", "8">>

====
